---- MODULE Spec2Model ----
(***************************************************************************)
(* The `balances` callback of rusty-blockparser (src/callbacks/balances.rs) *)
(* as a state machine: the unspent index, the per-block accounting, the    *)
(* audit trail (output.csv) and the snapshot written through a BufWriter   *)
(* to balances.csv.tmp and renamed on completion.                          *)
(*                                                                         *)
(* 64-bit machine words are kept at their width.  TLC's integers are       *)
(* narrower than 64 bits, so a word is a tuple of four 16-bit limbs, least *)
(* significant first; u64 and i64 share the representation (two's          *)
(* complement), as they do in the program.                                 *)
(***************************************************************************)
EXTENDS Integers, Sequences, FiniteSets, TLC

----------------------------------------------------------------------------
(* 64-bit words *)

LimbBase == 2^16
SignLimb == 2^15

Zero64 == <<0, 0, 0, 0>>

\* the word of a natural number below 2^31
FromNat(n) == <<n % LimbBase, n \div LimbBase, 0, 0>>

\* w * k for a small factor k (k < 2^15), wrapping at 2^64
MulSmall(w, k) ==
    LET p1 == w[1] * k
        p2 == w[2] * k + (p1 \div LimbBase)
        p3 == w[3] * k + (p2 \div LimbBase)
        p4 == w[4] * k + (p3 \div LimbBase)
    IN  <<p1 % LimbBase, p2 % LimbBase, p3 % LimbBase, p4 % LimbBase>>

\* a + b wrapping at 2^64 (wrapping_add; the same bits for u64 and i64)
Add64(a, b) ==
    LET s1 == a[1] + b[1]
        s2 == a[2] + b[2] + (s1 \div LimbBase)
        s3 == a[3] + b[3] + (s2 \div LimbBase)
        s4 == a[4] + b[4] + (s3 \div LimbBase)
    IN  <<s1 % LimbBase, s2 % LimbBase, s3 % LimbBase, s4 % LimbBase>>

\* whether the unsigned sum a + b does not fit in 64 bits
CarryOut64(a, b) ==
    LET s1 == a[1] + b[1]
        s2 == a[2] + b[2] + (s1 \div LimbBase)
        s3 == a[3] + b[3] + (s2 \div LimbBase)
        s4 == a[4] + b[4] + (s3 \div LimbBase)
    IN  s4 >= LimbBase

\* two's complement negation
Neg64(a) ==
    Add64(<<LimbBase - 1 - a[1], LimbBase - 1 - a[2],
            LimbBase - 1 - a[3], LimbBase - 1 - a[4]>>, <<1, 0, 0, 0>>)

Sub64(a, b) == Add64(a, Neg64(b))

\* the sign bit of the word read as i64
IsNeg64(a) == a[4] >= SignLimb

\* whether the signed sum a + b leaves the i64 range
SAddOverflow(a, b) ==
    /\ IsNeg64(a) = IsNeg64(b)
    /\ IsNeg64(Add64(a, b)) # IsNeg64(a)

\* whether the signed difference a - b leaves the i64 range
SSubOverflow(a, b) ==
    /\ IsNeg64(a) # IsNeg64(b)
    /\ IsNeg64(Sub64(a, b)) # IsNeg64(a)

\* i64: a > 0
IsPos64(a) == ~IsNeg64(a) /\ a # Zero64

\* limb i of the word, zero beyond the fourth
LimbAt(a, i) == IF i <= 4 THEN a[i] ELSE 0

\* logical shift right by k bits, 0 <= k < 64: whole limbs first, then bits
Shr64(a, k) ==
    LET q == k \div 16
        r == k % 16
        lo == 2^r
        hi == 2^(16 - r)
    IN  [i \in 1..4 |-> (LimbAt(a, i + q) \div lo) + (LimbAt(a, i + q + 1) % lo) * hi]

\* a divided by ten: quotient word and remainder digit (long division)
DivMod10(a) ==
    LET d4 == a[4]
        d3 == (d4 % 10) * LimbBase + a[3]
        d2 == (d3 % 10) * LimbBase + a[2]
        d1 == (d2 % 10) * LimbBase + a[1]
    IN  [q |-> <<d1 \div 10, d2 \div 10, d3 \div 10, d4 \div 10>>, r |-> d1 % 10]

DigitChars == <<"0", "1", "2", "3", "4", "5", "6", "7", "8", "9">>

\* u64::to_string: the decimal digits as characters, most significant first
RECURSIVE DecDigits(_)
DecDigits(a) ==
    LET dm == DivMod10(a)
    IN  IF dm.q = Zero64 THEN <<DigitChars[dm.r + 1]>>
        ELSE Append(DecDigits(dm.q), DigitChars[dm.r + 1])

U64ToString(a) == DecDigits(a)

\* i64::to_string: a minus sign before the magnitude of a negative value
I64ToString(a) == IF IsNeg64(a) THEN <<"-">> \o DecDigits(Neg64(a)) ELSE DecDigits(a)

----------------------------------------------------------------------------
(* block_reward *)

halving_interval == 210000

\* 50 * 100000000
initial_reward == MulSmall(FromNat(100000000), 50)

\* `initial_reward >> halvings` on u64: with overflow checks (debug build) a
\* shift by 64 or more panics; without them (release build) the shift amount
\* is masked to its low six bits.
block_reward(height, checks) ==
    LET halvings == height \div halving_interval
    IN  IF halvings >= 64
        THEN IF checks
             THEN [panic |-> TRUE, value |-> Zero64]
             ELSE [panic |-> FALSE, value |-> Shr64(initial_reward, halvings % 64)]
        ELSE [panic |-> FALSE, value |-> Shr64(initial_reward, halvings)]

----------------------------------------------------------------------------
(* Inputs delivered by the block source *)

\* how many blocks the driver delivers at most
MaxBlocks == 2

\* the largest number of halvings for which block_reward is exercised alone
MaxHalvings == 66

\* byte length of the address text "L"; the other addresses are one byte
LongAddrLen == 3999990

Addresses == {"A", "B", "L"}

AddrLen(a) == IF a = "L" THEN LongAddrLen ELSE 1

Coin(n) == MulSmall(FromNat(n), 10000)

\* 5,000,000,000 and 4,999,990,000 satoshi
V50 == Coin(500000)
V4999 == Coin(499999)

CoinbaseIn == [coinbase |-> TRUE, key |-> <<0, 0>>]
Spend(txid, idx) == [coinbase |-> FALSE, key |-> <<txid, idx>>]
Out(a, v) == [address |-> a, value |-> v]
Tx(id, ins, outs) == [txid |-> id, inputs |-> ins, outputs |-> outs]

\* transactions the block source can deliver
TxCoinbaseA == Tx(1, <<CoinbaseIn>>, <<Out("A", V50)>>)
TxCoinbaseZero == Tx(1, <<CoinbaseIn>>, <<Out("A", Zero64)>>)
TxSpendToB == Tx(2, <<Spend(1, 0)>>, <<Out("B", V4999)>>)
TxCoinbaseA2 == Tx(2, <<CoinbaseIn>>, <<Out("A", V50)>>)
TxSplit == Tx(2, <<Spend(1, 0), Spend(2, 1)>>, <<Out("B", V4999), Out("L", Zero64)>>)

\* the blocks the block source can deliver
Blocks ==
    { <<TxCoinbaseA>>, <<TxCoinbaseZero>>, <<TxSpendToB>>, <<TxCoinbaseA2>>, <<TxSplit>>,
      <<TxCoinbaseA, TxSpendToB>> }

\* heights at which the driver starts a run; blocks follow at consecutive heights
StartHeights == {0, 209999, 13439999}

----------------------------------------------------------------------------
(* The unspent index: common::remove_unspents and common::insert_unspents *)

Remove(u, key) == [k \in (DOMAIN u) \ {key} |-> u[k]]

Insert(u, key, e) == [k \in (DOMAIN u) \cup {key} |-> IF k = key THEN e ELSE u[k]]

\* spend step: every input that is not a coinbase input and whose key is in
\* the index removes that entry; a miss contributes nothing
RECURSIVE remove_inputs(_, _, _)
remove_inputs(ins, i, acc) ==
    IF i > Len(ins) THEN acc
    ELSE LET in == ins[i]
         IN  IF ~in.coinbase /\ in.key \in DOMAIN acc.unspents
             THEN remove_inputs(ins, i + 1,
                      [unspents |-> Remove(acc.unspents, in.key),
                       count |-> acc.count + 1,
                       value |-> Add64(acc.value, acc.unspents[in.key].value)])
             ELSE remove_inputs(ins, i + 1, acc)

remove_unspents(tx, u) ==
    remove_inputs(tx.inputs, 1, [unspents |-> u, count |-> 0, value |-> Zero64])

\* create step: output number i (from 0) of the transaction is inserted at
\* the key txid + i, replacing what is there
RECURSIVE insert_outputs(_, _, _, _)
insert_outputs(tx, block_height, i, acc) ==
    IF i > Len(tx.outputs) THEN acc
    ELSE LET out == tx.outputs[i]
         IN  insert_outputs(tx, block_height, i + 1,
                 [unspents |-> Insert(acc.unspents, <<tx.txid, i - 1>>,
                                   [address |-> out.address, value |-> out.value,
                                    block_height |-> block_height]),
                  count |-> acc.count + 1,
                  value |-> Add64(acc.value, out.value)])

insert_unspents(tx, block_height, u) ==
    insert_outputs(tx, block_height, 1, [unspents |-> u, count |-> 0, value |-> Zero64])

----------------------------------------------------------------------------
(* State *)

VARIABLES
    overflow_checks,  \* the build: TRUE when integer overflow checks are compiled in
    phase,            \* "new_failed", "new", "started", "done", "err", "panic", "terminated"
    panic_at,         \* where the run panicked, "none" otherwise
    unspents,         \* Balances.unspents: key -> [address, value, block_height]
    lost_value,       \* Balances.lost_value (u64)
    start_height,     \* Balances.start_height
    end_height,       \* Balances.end_height
    writer,           \* Balances.writer: [buf: buffered lines, open: not yet dropped]
    writer_path,      \* the name under which the writer's open file now lives
    fs,               \* the dump folder: file name -> lines of the file
    output_csv,       \* output.csv: the rows appended to the audit trail
    chain,            \* history: the blocks whose accounting was carried out
    complete_io,      \* history: what the file system answered on_complete
    next_height,      \* the height of the next block the driver delivers
    rw_height,        \* block_reward exercised alone: the height
    rw_result         \* block_reward exercised alone: the outcome

vars == <<overflow_checks, phase, panic_at, unspents, lost_value, start_height,
          end_height, writer, writer_path, fs, output_csv, chain, complete_io,
          next_height, rw_height, rw_result>>

engine_vars == <<overflow_checks, phase, panic_at, unspents, lost_value, start_height,
                 end_height, writer, writer_path, fs, output_csv, chain, complete_io,
                 next_height>>

TmpName == <<"balances.csv.tmp">>

\* format!("balances-{}-{}.csv", start_height, end_height)
FinalName(s, e) == <<"balances-", U64ToString(FromNat(s)), "-", U64ToString(FromNat(e)), ".csv">>

EmptyMap == [k \in {} |-> 0]

WriterCapacity == 4000000

\* mutant: the writer is opened on the finalized name instead of `path`
create_writer_on_final_name(cap, path, ok) ==
    [err |-> ~ok, writer |-> [buf |-> <<>>, cap |-> cap, open |-> ok],
     fs |-> IF ok THEN [n \in {FinalName(0, 0)} |-> <<>>] ELSE EmptyMap]

\* mutant: construction succeeds without creating the file
create_writer_deferred(cap, path, ok) ==
    [err |-> FALSE, writer |-> [buf |-> <<>>, cap |-> cap, open |-> FALSE], fs |-> EmptyMap]

\* File::create(path) wrapped in a BufWriter: the file exists, empty
create_writer(cap, path, ok) ==
    IF ok
    THEN [err |-> FALSE, writer |-> [buf |-> <<>>, cap |-> cap, open |-> TRUE],
          fs |-> [n \in {path} |-> <<>>]]
    ELSE [err |-> TRUE, writer |-> [buf |-> <<>>, cap |-> cap, open |-> FALSE],
          fs |-> EmptyMap]

NoReward == [called |-> FALSE, panic |-> FALSE, value |-> Zero64]

\* Balances::new
Init ==
    /\ overflow_checks \in BOOLEAN
    /\ \E ok \in BOOLEAN :
         LET c == create_writer(WriterCapacity, TmpName, ok)
         IN  /\ phase = IF c.err THEN "new_failed" ELSE "new"
             /\ writer = c.writer
             /\ fs = c.fs
    /\ writer_path = TmpName
    /\ panic_at = "none"
    /\ unspents = EmptyMap
    /\ start_height = 0
    /\ end_height = 0
    /\ lost_value = Zero64
    /\ output_csv = <<>>
    /\ chain = <<>>
    /\ complete_io = [write_failed |-> FALSE, rename |-> "none"]
    /\ next_height = 0
    /\ rw_height = 0
    /\ rw_result = NoReward

----------------------------------------------------------------------------
(* on_start *)

\* mutant: on_start does not record the height
on_start_height_dropped(block_height) ==
    /\ phase = "new"
    /\ phase' = "started"
    /\ next_height' = block_height
    /\ UNCHANGED <<overflow_checks, panic_at, unspents, lost_value, start_height, end_height,
                   writer, writer_path, fs, output_csv, chain, complete_io, rw_height,
                   rw_result>>

on_start(block_height) ==
    /\ phase = "new"
    /\ start_height' = block_height
    /\ phase' = "started"
    /\ next_height' = block_height
    /\ UNCHANGED <<overflow_checks, panic_at, unspents, lost_value, end_height, writer,
                   writer_path, fs, output_csv, chain, complete_io, rw_height, rw_result>>

----------------------------------------------------------------------------
(* on_block *)

\* mutant: the creates are applied to the index as it was before the spends
RECURSIVE apply_txs_spends_lost(_, _, _, _, _)
apply_txs_spends_lost(txs, i, block_height, checks, acc) ==
    IF i > Len(txs) \/ acc.panic THEN acc
    ELSE LET rem == remove_unspents(txs[i], acc.unspents)
             ins == insert_unspents(txs[i], block_height, acc.unspents)
             ovf == \/ SAddOverflow(acc.in_v, rem.value)
                    \/ SAddOverflow(acc.out_v, ins.value)
         IN  apply_txs_spends_lost(txs, i + 1, block_height, checks,
                 [unspents |-> ins.unspents,
                  in_v |-> Add64(acc.in_v, rem.value),
                  out_v |-> Add64(acc.out_v, ins.value),
                  panic |-> checks /\ ovf])

\* mutant: the transactions are taken from the last to the first
RECURSIVE apply_txs_reversed(_, _, _, _, _)
apply_txs_reversed(txs, i, block_height, checks, acc) ==
    IF i > Len(txs) \/ acc.panic THEN acc
    ELSE LET tx == txs[Len(txs) + 1 - i]
             rem == remove_unspents(tx, acc.unspents)
             ins == insert_unspents(tx, block_height, rem.unspents)
             ovf == \/ SAddOverflow(acc.in_v, rem.value)
                    \/ SAddOverflow(acc.out_v, ins.value)
         IN  apply_txs_reversed(txs, i + 1, block_height, checks,
                 [unspents |-> ins.unspents,
                  in_v |-> Add64(acc.in_v, rem.value),
                  out_v |-> Add64(acc.out_v, ins.value),
                  panic |-> checks /\ ovf])

\* mutant: the entries insert_unspents made are dropped from the index
RECURSIVE apply_txs_creates_dropped(_, _, _, _, _)
apply_txs_creates_dropped(txs, i, block_height, checks, acc) ==
    IF i > Len(txs) \/ acc.panic THEN acc
    ELSE LET rem == remove_unspents(txs[i], acc.unspents)
             ins == insert_unspents(txs[i], block_height, rem.unspents)
             ovf == \/ SAddOverflow(acc.in_v, rem.value)
                    \/ SAddOverflow(acc.out_v, ins.value)
         IN  apply_txs_creates_dropped(txs, i + 1, block_height, checks,
                 [unspents |-> rem.unspents,
                  in_v |-> Add64(acc.in_v, rem.value),
                  out_v |-> Add64(acc.out_v, ins.value),
                  panic |-> checks /\ ovf])

\* mutant: the spent value is added to out_v and the created value to in_v
RECURSIVE apply_txs_sums_swapped(_, _, _, _, _)
apply_txs_sums_swapped(txs, i, block_height, checks, acc) ==
    IF i > Len(txs) \/ acc.panic THEN acc
    ELSE LET rem == remove_unspents(txs[i], acc.unspents)
             ins == insert_unspents(txs[i], block_height, rem.unspents)
             ovf == \/ SAddOverflow(acc.in_v, ins.value)
                    \/ SAddOverflow(acc.out_v, rem.value)
         IN  apply_txs_sums_swapped(txs, i + 1, block_height, checks,
                 [unspents |-> ins.unspents,
                  in_v |-> Add64(acc.in_v, ins.value),
                  out_v |-> Add64(acc.out_v, rem.value),
                  panic |-> checks /\ ovf])

\* the loop over block.txs: spends, then creates, then the two i64 sums; with
\* overflow checks a sum leaving the i64 range panics where it stands
RECURSIVE apply_txs(_, _, _, _, _)
apply_txs(txs, i, block_height, checks, acc) ==
    IF i > Len(txs) \/ acc.panic THEN acc
    ELSE LET rem == remove_unspents(txs[i], acc.unspents)
             ins == insert_unspents(txs[i], block_height, rem.unspents)
             ovf == \/ SAddOverflow(acc.in_v, rem.value)
                    \/ SAddOverflow(acc.out_v, ins.value)
         IN  apply_txs(txs, i + 1, block_height, checks,
                 [unspents |-> ins.unspents,
                  in_v |-> Add64(acc.in_v, rem.value),
                  out_v |-> Add64(acc.out_v, ins.value),
                  panic |-> checks /\ ovf])

\* the record write_to_csv writes
csv_record(block_height, b_reward, in_v, out_v, lost) ==
    <<U64ToString(FromNat(block_height)), I64ToString(b_reward), I64ToString(in_v),
      I64ToString(out_v), I64ToString(lost)>>

\* write_to_csv: open output.csv for appending, write one record, flush
write_to_csv(csv, block_height, b_reward, in_v, out_v, lost, io_ok) ==
    IF io_ok
    THEN [err |-> FALSE, csv |-> Append(csv, csv_record(block_height, b_reward, in_v, out_v, lost))]
    ELSE [err |-> TRUE, csv |-> csv]

\* mutant: `lost >= 0` for `lost > 0`
lost_reported_from_zero(lost) == ~IsNeg64(lost)

\* whether the block's lost value is reported
lost_reported(lost) == IsPos64(lost)

\* `self.lost_value += lost as u64`: with overflow checks a sum that does not
\* fit in u64 panics; without them it wraps
fold_lost(lv, lost, checks) ==
    IF checks /\ CarryOut64(lv, lost)
    THEN [panic |-> TRUE, lost_value |-> lv]
    ELSE [panic |-> FALSE, lost_value |-> Add64(lv, lost)]

\* mutant: `write_to_csv(..)?` for the `if let Err(err)` that only prints
write_to_csv_err_fatal_propagated(err) == err

\* `if let Err(err) = write_to_csv(..) { eprintln!(..) }`: whether a failed
\* audit write ends the call; the error is printed and dropped
write_to_csv_err_fatal(err) == FALSE

\* the whole of on_block as a function of the state it reads
block_outcome(block, block_height, u, lv, csv, checks, io_ok) ==
    LET rw == block_reward(block_height, checks)
        b_reward == rw.value
        a == apply_txs(block, 1, block_height, checks,
                       [unspents |-> u, in_v |-> Zero64, out_v |-> Zero64, panic |-> FALSE])
        sum == Add64(b_reward, a.in_v)
        lost == Sub64(sum, a.out_v)
        lost_ovf == SAddOverflow(b_reward, a.in_v) \/ SSubOverflow(sum, a.out_v)
        w == IF lost_reported(lost)
             THEN write_to_csv(csv, block_height, b_reward, a.in_v, a.out_v, lost, io_ok)
             ELSE [err |-> FALSE, csv |-> csv]
        f == fold_lost(lv, lost, checks)
        fatal == write_to_csv_err_fatal(w.err)
        entry == [height |-> block_height, block |-> block, b_reward |-> b_reward,
                  in_v |-> a.in_v, out_v |-> a.out_v, lost |-> lost,
                  csv_err |-> w.err, returned |-> ~fatal /\ ~f.panic]
    IN  IF rw.panic
        THEN [panic_at |-> "block_reward", unspents |-> u, lost_value |-> lv,
              csv |-> csv, entries |-> <<>>]
        ELSE IF a.panic \/ (checks /\ lost_ovf)
        THEN [panic_at |-> "accounting", unspents |-> a.unspents, lost_value |-> lv,
              csv |-> csv, entries |-> <<>>]
        ELSE IF fatal
        THEN [panic_at |-> "write_to_csv", unspents |-> a.unspents, lost_value |-> lv,
              csv |-> w.csv, entries |-> <<entry>>]
        ELSE [panic_at |-> IF f.panic THEN "lost_value" ELSE "none",
              unspents |-> a.unspents, lost_value |-> f.lost_value,
              csv |-> w.csv, entries |-> <<entry>>]

\* what an on_block call with the outcome o leaves behind
block_applied(o) ==
    /\ unspents' = o.unspents
    /\ lost_value' = o.lost_value
    /\ output_csv' = o.csv
    /\ chain' = chain \o o.entries
    /\ panic_at' = o.panic_at
    /\ phase' = IF o.panic_at = "none" THEN "started" ELSE "panic"

on_block(block, io_ok) ==
    /\ phase = "started"
    /\ Len(chain) < MaxBlocks
    /\ block_applied(block_outcome(block, next_height, unspents, lost_value, output_csv,
                                   overflow_checks, io_ok))
    /\ next_height' = next_height + 1
    /\ UNCHANGED <<overflow_checks, start_height, end_height, writer, writer_path, fs,
                   complete_io, rw_height, rw_result>>

----------------------------------------------------------------------------
(* on_complete *)

\* the orders in which a HashMap may hand out the elements of S
Orders(S) ==
    {f \in [1..Cardinality(S) -> S] : \A i, j \in 1..Cardinality(S) : f[i] = f[j] => i = j}

\* "address;balance\n" and "<address>;<balance>\n" as their two fields
HeaderLine == <<"address", "balance">>
RowLine(address, balance) == <<address, U64ToString(balance)>>

\* bytes of a line: the two fields, the ';' and the '\n'
LineLen(line) ==
    (IF line = HeaderLine THEN 7 + 7 ELSE AddrLen(line[1]) + Len(line[2])) + 2

RECURSIVE BufLen(_)
BufLen(buf) == IF buf = <<>> THEN 0 ELSE LineLen(Head(buf)) + BufLen(Tail(buf))

Min(a, b) == IF a < b THEN a ELSE b

\* BufWriter::flush_buf: the buffered lines go to the file; when the write
\* fails, the first k lines may have gone out and the rest stays buffered
flush_buf(w, file, fail, k) ==
    IF w.buf = <<>> THEN [err |-> FALSE, buf |-> <<>>, file |-> file]
    ELSE IF fail
    THEN LET n == Min(k, Len(w.buf) - 1)
         IN  [err |-> TRUE, buf |-> SubSeq(w.buf, n + 1, Len(w.buf)),
              file |-> file \o SubSeq(w.buf, 1, n)]
    ELSE [err |-> FALSE, buf |-> <<>>, file |-> file \o w.buf]

\* BufWriter::write_all of one line: a line shorter than the spare capacity
\* is only buffered; otherwise the buffer is flushed first when the line does
\* not fit, and a line as long as the capacity is written through
write_all(w, file, line, fail, k) ==
    LET len == LineLen(line)
        spare == w.cap - BufLen(w.buf)
    IN  IF len < spare
        THEN [err |-> FALSE, buf |-> Append(w.buf, line), file |-> file]
        ELSE LET fl == IF len > spare THEN flush_buf(w, file, fail, k)
                       ELSE [err |-> FALSE, buf |-> w.buf, file |-> file]
                 flushed == len > spare /\ w.buf # <<>>
             IN  IF fl.err THEN fl
                 ELSE IF len >= w.cap
                 THEN IF fail /\ ~flushed
                      THEN [err |-> TRUE, buf |-> fl.buf, file |-> fl.file]
                      ELSE [err |-> FALSE, buf |-> fl.buf, file |-> Append(fl.file, line)]
                 ELSE [err |-> FALSE, buf |-> Append(fl.buf, line), file |-> fl.file]

\* the writes of on_complete in order, stopping at the first that fails (`?`)
RECURSIVE write_lines(_, _, _, _, _, _)
write_lines(lines, i, w, file, failAt, k) ==
    IF i > Len(lines) THEN [err |-> FALSE, buf |-> w.buf, file |-> file]
    ELSE LET r == write_all(w, file, lines[i], i = failAt, k)
         IN  IF r.err THEN r
             ELSE write_lines(lines, i + 1, [w EXCEPT !.buf = r.buf], r.file, failAt, k)

\* mutant: `*entry = unspent.value` for `*entry += unspent.value`
RECURSIVE collect_balances_overwrite(_, _, _, _, _)
collect_balances_overwrite(u, keyOrder, i, checks, acc) ==
    IF i > Len(keyOrder) THEN acc
    ELSE collect_balances_overwrite(u, keyOrder, i + 1, checks,
             [balances |-> Insert(acc.balances, u[keyOrder[i]].address, u[keyOrder[i]].value),
              panic |-> FALSE])

\* mutant: `or_insert(unspent.value)` alone: an address keeps the value of its
\* first entry
RECURSIVE collect_balances_first_wins(_, _, _, _, _)
collect_balances_first_wins(u, keyOrder, i, checks, acc) ==
    IF i > Len(keyOrder) THEN acc
    ELSE LET e == u[keyOrder[i]]
         IN  collect_balances_first_wins(u, keyOrder, i + 1, checks,
                 [balances |-> IF e.address \in DOMAIN acc.balances THEN acc.balances
                               ELSE Insert(acc.balances, e.address, e.value),
                  panic |-> FALSE])

\* the fold of unspents.values() into balances, in the order the map hands
\* the entries out; `*entry += unspent.value` is a u64 addition
RECURSIVE collect_balances(_, _, _, _, _)
collect_balances(u, keyOrder, i, checks, acc) ==
    IF i > Len(keyOrder) \/ acc.panic THEN acc
    ELSE LET e == u[keyOrder[i]]
             old == IF e.address \in DOMAIN acc.balances
                    THEN acc.balances[e.address] ELSE Zero64
         IN  collect_balances(u, keyOrder, i + 1, checks,
                 [balances |-> Insert(acc.balances, e.address, Add64(old, e.value)),
                  panic |-> checks /\ CarryOut64(old, e.value)])

\* the lines on_complete writes: the header, then one line per entry of
\* balances in the order balances.iter() hands them out
snapshot_lines(balances, rowOrder) ==
    <<HeaderLine>> \o [i \in 1..Len(rowOrder) |-> RowLine(rowOrder[i], balances[rowOrder[i]])]

\* fs::rename(from, to)
rename(files, from, to) ==
    [n \in ((DOMAIN files) \ {from}) \cup {to} |-> IF n = to THEN files[from] ELSE files[n]]

\* mutant: the result of the writes is ignored
renames_after_failed_write(write_err) == TRUE

\* whether on_complete renames the temporary file: after every write went through
renames(write_err) == ~write_err

\* mutant: the result of the rename is dropped
expect_rename_swallowed(rename_ok) == "done"

\* `.expect("Unable to rename tmp file!")`: a failed rename panics
expect_rename(rename_ok) == IF rename_ok THEN "done" ELSE "panic"

complete_outcome(block_height, u, w, files, path, start, checks, keyOrder, rowOrder, failAt, k, rename_ok) ==
    LET col == collect_balances(u, keyOrder, 1, checks, [balances |-> EmptyMap, panic |-> FALSE])
        lines == IF col.panic THEN <<HeaderLine>> ELSE snapshot_lines(col.balances, rowOrder)
        wr == write_lines(lines, 1, w, files[path], failAt, k)
        written == [n \in DOMAIN files |-> IF n = path THEN wr.file ELSE files[n]]
        final == FinalName(start, block_height)
    IN  IF ~renames(wr.err)
        THEN [phase |-> "err", panic_at |-> "none", buf |-> wr.buf, fs |-> written,
              path |-> path, write_failed |-> wr.err, rename |-> "none"]
        ELSE IF col.panic
        THEN [phase |-> "panic", panic_at |-> "balances", buf |-> wr.buf, fs |-> written,
              path |-> path, write_failed |-> wr.err, rename |-> "none"]
        ELSE IF rename_ok
        THEN [phase |-> expect_rename(TRUE), panic_at |-> "none", buf |-> wr.buf,
              fs |-> rename(written, path, final), path |-> final,
              write_failed |-> wr.err, rename |-> "ok"]
        ELSE [phase |-> expect_rename(FALSE),
              panic_at |-> IF expect_rename(FALSE) = "panic" THEN "rename" ELSE "none",
              buf |-> wr.buf, fs |-> written, path |-> path,
              write_failed |-> wr.err, rename |-> "failed"]

\* the addresses that own an entry of the index
owners(u) == {u[key].address : key \in DOMAIN u}

\* the writes of on_complete that reach the file, and so can fail: 0 stands
\* for no failure
fail_points(w, file, lines) ==
    {0} \cup {i \in 1..Len(lines) : write_lines(lines, 1, w, file, i, 0).err}

on_complete(block_height) ==
    /\ phase = "started"
    /\ end_height' = block_height
    /\ \E keyOrder \in Orders(DOMAIN unspents), rowOrder \in Orders(owners(unspents)) :
         LET col == collect_balances(unspents, keyOrder, 1, overflow_checks,
                                     [balances |-> EmptyMap, panic |-> FALSE])
             lines == IF col.panic THEN <<HeaderLine>>
                      ELSE snapshot_lines(col.balances, rowOrder)
         IN  \E failAt \in fail_points(writer, fs[writer_path], lines), rename_ok \in BOOLEAN :
               \E k \in IF failAt = 0 THEN {0} ELSE {0, 1} :
                 LET o == complete_outcome(block_height, unspents, writer, fs, writer_path,
                                           start_height, overflow_checks, keyOrder, rowOrder,
                                           failAt, k, rename_ok)
                 IN  /\ phase' = o.phase
                     /\ panic_at' = o.panic_at
                     /\ writer' = [writer EXCEPT !.buf = o.buf]
                     /\ fs' = o.fs
                     /\ writer_path' = o.path
                     /\ complete_io' = [write_failed |-> o.write_failed, rename |-> o.rename]
    /\ UNCHANGED <<overflow_checks, unspents, lost_value, start_height, output_csv, chain,
                   next_height, rw_height, rw_result>>

\* the height the driver passes to on_complete: that of the last block delivered
last_height == IF next_height > start_height THEN next_height - 1 ELSE start_height

----------------------------------------------------------------------------
(* The end of the run *)

\* the callback is dropped after on_complete returned or panicked: BufWriter's
\* drop flushes what is buffered and ignores a failure
drop_writer(fail, k) ==
    /\ phase \in {"done", "err", "panic"}
    /\ writer.open
    /\ LET fl == flush_buf(writer, fs[writer_path], fail, k)
       IN  /\ writer' = [writer EXCEPT !.buf = <<>>, !.open = FALSE]
           /\ fs' = [fs EXCEPT ![writer_path] = fl.file]
    /\ UNCHANGED <<overflow_checks, phase, panic_at, unspents, lost_value, start_height,
                   end_height, writer_path, output_csv, chain, complete_io, next_height,
                   rw_height, rw_result>>

\* the process is terminated before on_complete is called
terminate ==
    /\ phase \in {"new", "started"}
    /\ phase' = "terminated"
    /\ UNCHANGED <<overflow_checks, panic_at, unspents, lost_value, start_height, end_height,
                   writer, writer_path, fs, output_csv, chain, complete_io, next_height,
                   rw_height, rw_result>>

----------------------------------------------------------------------------
(* The run: start, one on_block per block at consecutive heights, complete *)

Next ==
    \/ \E h \in StartHeights : on_start(h)
    \/ \E block \in Blocks, io_ok \in BOOLEAN : on_block(block, io_ok)
    \/ on_complete(last_height)
    \/ \E fail \in BOOLEAN, k \in 0..1 : drop_writer(fail, k)
    \/ terminate

Spec == Init /\ [][Next]_vars

----------------------------------------------------------------------------
(* block_reward exercised alone over heights around every halving *)

RewardHeights ==
    {n * halving_interval + d : n \in 0..MaxHalvings, d \in {0, 1, halving_interval - 1}}

RewardInit ==
    /\ Init
    /\ phase = "new"

call_block_reward(height) ==
    /\ ~rw_result.called
    /\ rw_height' = height
    /\ rw_result' = [called |-> TRUE] @@ block_reward(height, overflow_checks)
    /\ UNCHANGED engine_vars

RewardNext == \E height \in RewardHeights : call_block_reward(height)

RewardSpec == RewardInit /\ [][RewardNext]_vars

----------------------------------------------------------------------------
(* on_block called a second time for the block just applied, at its height *)

on_block_again(io_ok) ==
    /\ phase = "started"
    /\ chain # <<>>
    /\ Len(chain) <= MaxBlocks
    /\ block_applied(block_outcome(chain[Len(chain)].block, chain[Len(chain)].height,
                                   unspents, lost_value, output_csv, overflow_checks, io_ok))
    /\ UNCHANGED <<overflow_checks, start_height, end_height, writer, writer_path, fs,
                   complete_io, next_height, rw_height, rw_result>>

RedeliverNext ==
    \/ \E h \in StartHeights : on_start(h)
    \/ \E block \in Blocks, io_ok \in BOOLEAN : on_block(block, io_ok)
    \/ \E io_ok \in BOOLEAN : on_block_again(io_ok)

RedeliverSpec == Init /\ [][RedeliverNext]_vars

----------------------------------------------------------------------------
(* Helpers of the properties *)

\* a divided by two (long division), without a shift
Div2(a) ==
    LET d4 == a[4]
        d3 == (d4 % 2) * LimbBase + a[3]
        d2 == (d3 % 2) * LimbBase + a[2]
        d1 == (d2 % 2) * LimbBase + a[1]
    IN  <<d1 \div 2, d2 \div 2, d3 \div 2, d4 \div 2>>

\* floor(a / 2^n)
RECURSIVE FloorDivPow2(_, _)
FloorDivPow2(a, n) == IF n = 0 \/ a = Zero64 THEN a ELSE FloorDivPow2(Div2(a), n - 1)

\* the value of a digit character
DigitValue(c) == CHOOSE d \in 0..9 : DigitChars[d + 1] = c

\* the word a decimal digit string denotes
RECURSIVE ParseDigits(_, _)
ParseDigits(ds, acc) ==
    IF ds = <<>> THEN acc
    ELSE ParseDigits(Tail(ds), Add64(MulSmall(acc, 10), FromNat(DigitValue(Head(ds)))))

\* the i64 a decimal string with an optional minus sign denotes
ParseI64(str) ==
    IF str # <<>> /\ Head(str) = "-" THEN Neg64(ParseDigits(Tail(str), Zero64))
    ELSE ParseDigits(str, Zero64)

\* the sum of the strictly positive lost values of the first n processed blocks
RECURSIVE PositiveLostSum(_, _)
PositiveLostSum(c, n) ==
    IF n = 0 THEN Zero64
    ELSE LET rest == PositiveLostSum(c, n - 1)
         IN  IF IsPos64(c[n].lost) THEN Add64(rest, c[n].lost) ELSE rest

\* the name of the finalized file of this run
FinalPath == FinalName(start_height, end_height)

\* the finalized files in the dump folder
FinalFiles == (DOMAIN fs) \ {TmpName}

----------------------------------------------------------------------------
(* C1 *)

\* C1: after any sequence of on_block calls, lost_value is the sum of the
\* lost values of exactly the processed blocks whose lost was strictly
\* positive; a block with zero or negative lost leaves it unchanged.
C1_LostValueSumsPositiveLost ==
    phase = "started" => lost_value = PositiveLostSum(chain, Len(chain))

----------------------------------------------------------------------------
(* C2 *)

\* C2: when on_complete has renamed the temporary file to its final name,
\* the file under the final name holds the header line and one line for every
\* aggregated address.
C2_FileCompleteAtRename ==
    (phase = "done" /\ FinalPath \in DOMAIN fs) =>
        LET f == fs[FinalPath]
        IN  /\ Len(f) >= 1
            /\ f[1] = HeaderLine
            /\ \A a \in owners(unspents) : \E i \in 2..Len(f) : f[i][1] = a

----------------------------------------------------------------------------
(* C3 *)

\* C3: block_reward(height) is floor(5,000,000,000 / 2^(height div 210000)),
\* which is 0 from 64 halvings on; it never wraps to a non-zero reward and
\* never panics.
C3_RewardIsFloorOfHalvings ==
    rw_result.called =>
        /\ ~rw_result.panic
        /\ rw_result.value =
             (IF rw_height \div 210000 >= 64 THEN Zero64
              ELSE FloorDivPow2(Coin(500000), rw_height \div 210000))

----------------------------------------------------------------------------
(* C4 *)

\* C4: as long as on_complete has not run through its rename, the dump folder
\* of a constructed engine holds balances.csv.tmp and no finalized file.
C4_NoFinalFileBeforeRename ==
    (phase # "new_failed" /\ complete_io.rename # "ok") => DOMAIN fs = {TmpName}

\* a run terminated mid-scan, after a block was applied
C4_Witness ==
    /\ phase = "terminated"
    /\ Len(chain) >= 1
    /\ TmpName \in DOMAIN fs

----------------------------------------------------------------------------
(* C5 *)

\* the transactions of the processed blocks, in processing order
RECURSIVE ChainTxs(_, _)
ChainTxs(c, n) == IF n = 0 THEN <<>> ELSE ChainTxs(c, n - 1) \o c[n].block

ProcessedTxs == ChainTxs(chain, Len(chain))

OutputKeys(tx) == {<<tx.txid, i - 1>> : i \in 1..Len(tx.outputs)}

SpendKeys(tx) == {tx.inputs[i].key : i \in {j \in 1..Len(tx.inputs) : ~tx.inputs[j].coinbase}}

CreatedKeys(txs) == UNION {OutputKeys(txs[i]) : i \in 1..Len(txs)}

SpentKeys(txs) == UNION {SpendKeys(txs[i]) : i \in 1..Len(txs)}

\* a well-formed chain: no transaction id occurs twice, every input that is
\* not a coinbase input spends an output of an earlier transaction, and no
\* output is spent twice
WellFormed(txs) ==
    /\ \A i, j \in 1..Len(txs) : txs[i].txid = txs[j].txid => i = j
    /\ \A j \in 1..Len(txs) : \A key \in SpendKeys(txs[j]) :
         /\ \E i \in 1..(j - 1) : key \in OutputKeys(txs[i])
         /\ \A i \in 1..(j - 1) : key \notin SpendKeys(txs[i])
    /\ \A j \in 1..Len(txs) : \A a, b \in 1..Len(txs[j].inputs) :
         (~txs[j].inputs[a].coinbase /\ txs[j].inputs[a].key = txs[j].inputs[b].key) => a = b

\* the index holds exactly the outputs created and not yet spent
IndexIsCreatedMinusSpent ==
    WellFormed(ProcessedTxs) =>
        DOMAIN unspents = CreatedKeys(ProcessedTxs) \ SpentKeys(ProcessedTxs)

\* a key leaves the index only in an on_block call whose block spends it
RemovedOnlyBySpend ==
    \A key \in DOMAIN unspents :
        key \notin DOMAIN unspents' =>
            /\ Len(chain') = Len(chain) + 1
            /\ \E i \in 1..Len(chain'[Len(chain')].block) :
                 key \in SpendKeys(chain'[Len(chain')].block[i])

\* C5: on a well-formed chain an output key is in the index if and only if a
\* processed block created it and no input of a processed block spent it;
\* entries are removed only by the spend step.
C5_IndexIsUnspentOutputs == [](IndexIsCreatedMinusSpent) /\ [][RemovedOnlyBySpend]_vars

\* a well-formed chain of two blocks, one output spent and one live
C5_Witness ==
    /\ Len(chain) = 2
    /\ WellFormed(ProcessedTxs)
    /\ SpentKeys(ProcessedTxs) # {}
    /\ DOMAIN unspents # {}

----------------------------------------------------------------------------
(* C6 *)

\* a row of output.csv read back as numbers
ParsedRow(r) ==
    <<ParseDigits(r[1], Zero64), ParseI64(r[2]), ParseI64(r[3]), ParseI64(r[4]), ParseI64(r[5])>>

ParsedAudit == [i \in 1..Len(output_csv) |-> ParsedRow(output_csv[i])]

\* (block_height, subsidy, spent_value, created_value, lost) of a processed block
AuditValues(e) == <<FromNat(e.height), e.b_reward, e.in_v, e.out_v, e.lost>>

\* the rows of the first n processed blocks with a strictly positive lost,
\* in processing order; with skipFailed, without those whose write failed
RECURSIVE ExpectedAudit(_, _, _)
ExpectedAudit(c, n, skipFailed) ==
    IF n = 0 THEN <<>>
    ELSE LET rest == ExpectedAudit(c, n - 1, skipFailed)
         IN  IF IsPos64(c[n].lost) /\ ~(skipFailed /\ c[n].csv_err)
             THEN Append(rest, AuditValues(c[n])) ELSE rest

\* the sum of the values of all outputs of all transactions of a block
RECURSIVE OutputsValue(_, _)
OutputsValue(outs, n) ==
    IF n = 0 THEN Zero64 ELSE Add64(OutputsValue(outs, n - 1), outs[n].value)

RECURSIVE CreatedValue(_, _)
CreatedValue(block, n) ==
    IF n = 0 THEN Zero64
    ELSE Add64(CreatedValue(block, n - 1), OutputsValue(block[n].outputs, Len(block[n].outputs)))

\* lost = subsidy(height) + spent_value - created_value for every processed block
AccountingHolds ==
    \A n \in 1..Len(chain) :
        /\ chain[n].out_v = CreatedValue(chain[n].block, Len(chain[n].block))
        /\ chain[n].lost = Sub64(Add64(chain[n].b_reward, chain[n].in_v), chain[n].out_v)

IsPrefix(a, b) == Len(a) <= Len(b) /\ SubSeq(b, 1, Len(a)) = a

\* C6 as stated: one row for every processed block with a strictly positive
\* lost, none for another block, in processing order.
C6_Original_RowPerPositiveBlock ==
    ParsedAudit = ExpectedAudit(chain, Len(chain), FALSE)

\* C6 amended: one row for every processed block with a strictly positive
\* lost whose audit write did not fail, none for another block, in processing
\* order, each row (block_height, subsidy, spent_value, created_value, lost);
\* rows once appended are never changed or removed.
C6_RowPerWrittenPositiveBlock ==
    /\ [](ParsedAudit = ExpectedAudit(chain, Len(chain), TRUE) /\ AccountingHolds)
    /\ [][IsPrefix(output_csv, output_csv')]_vars

\* two processed blocks with positive lost: the first one's write failed, the
\* second one's row is in the file
C6_Witness ==
    /\ Len(chain) = 2
    /\ IsPos64(chain[1].lost) /\ chain[1].csv_err
    /\ IsPos64(chain[2].lost) /\ ~chain[2].csv_err
    /\ Len(chain[2].block) = 2
    /\ Len(output_csv) = 1

----------------------------------------------------------------------------
(* C7 *)

\* everything on_complete wrote through the writer: what reached the file,
\* then what is still buffered
Snapshot == fs[writer_path] \o writer.buf

\* the sum of the values of the entries of the index at the keys S
RECURSIVE ValueOfKeys(_)
ValueOfKeys(S) ==
    IF S = {} THEN Zero64
    ELSE LET key == CHOOSE key \in S : TRUE
         IN  Add64(unspents[key].value, ValueOfKeys(S \ {key}))

BalanceOf(a) == ValueOfKeys({key \in DOMAIN unspents : unspents[key].address = a})

----------------------------------------------------------------------------
(* C8 *)

\* C8: every address row written to the snapshot has a balance greater than
\* zero.
C8_RowsHaveNonZeroBalance ==
    (phase = "done" /\ writer.open) =>
        \A i \in 2..Len(Snapshot) : ParseDigits(Snapshot[i][2], Zero64) # Zero64

----------------------------------------------------------------------------
(* C9 *)

\* C9: when the rename fails, on_complete does not return: the run panics,
\* and no finalized file exists.
C9_RenameFailureIsFatal ==
    complete_io.rename = "failed" =>
        /\ phase = "panic"
        /\ panic_at = "rename"
        /\ FinalFiles = {}

\* the rename failed at the end of a run that applied a block
C9_Witness ==
    /\ complete_io.rename = "failed"
    /\ Len(chain) >= 1
    /\ ~complete_io.write_failed

----------------------------------------------------------------------------
(* C10 *)

\* C10: when a write of the snapshot fails, on_complete returns the failure
\* and does not rename: no finalized file exists.
C10_WriteFailureSkipsRename ==
    complete_io.write_failed =>
        /\ phase = "err"
        /\ complete_io.rename = "none"
        /\ FinalFiles = {}

\* a write of on_complete failed
C10_Witness ==
    /\ complete_io.write_failed
    /\ phase = "err"
    /\ TmpName \in DOMAIN fs

----------------------------------------------------------------------------
(* C11 *)

\* the index and the sums a block's loop starts from
NoSums(u) == [unspents |-> u, in_v |-> Zero64, out_v |-> Zero64, panic |-> FALSE]

\* an on_block call whose audit write failed leaves the engine as the same
\* call with a successful write leaves it, the row apart
FailedAuditWriteChangesNothing ==
    (Len(chain') = Len(chain) + 1 /\ chain'[Len(chain')].csv_err) =>
        LET e == chain'[Len(chain')]
            ok == block_outcome(e.block, e.height, unspents, lost_value, output_csv,
                                overflow_checks, TRUE)
        IN  /\ unspents' = ok.unspents
            /\ unspents' = apply_txs(e.block, 1, e.height, overflow_checks, NoSums(unspents)).unspents
            /\ lost_value' = ok.lost_value
            /\ panic_at' = ok.panic_at
            /\ phase' = (IF ok.panic_at = "none" THEN "started" ELSE "panic")
            /\ output_csv' = output_csv
            /\ Len(ok.csv) = Len(output_csv) + 1
            /\ lost_value = PositiveLostSum(chain, Len(chain)) =>
                 (e.returned /\ phase' = "started")

\* C11: a failed audit-row write is not fatal: the on_block call returns
\* success with the block's spends and creates applied, and the index,
\* lost_value and the phase are those of the same call with a successful
\* write, so that later blocks are processed as if it had not failed.
C11_AuditWriteFailureIsNotFatal == [][FailedAuditWriteChangesNothing]_vars

\* the audit write of the first block failed, and a second block that spends
\* an output of the first was processed after it
C11_Witness ==
    /\ Len(chain) = 2
    /\ chain[1].csv_err /\ chain[1].returned
    /\ chain[2].returned /\ ~chain[2].csv_err
    /\ chain[2].in_v # Zero64
    /\ phase = "started"

----------------------------------------------------------------------------
(* C12 *)

\* an on_block call that ended in a panic
BlockCallFailed ==
    /\ phase = "started"
    /\ phase' = "panic"
    /\ next_height' = next_height + 1

\* C12: an on_block call that fails leaves the index and lost_value exactly
\* as they were before the call: the block is applied completely or not at
\* all.
C12_FailedBlockLeavesNoTrace ==
    [][BlockCallFailed => (unspents' = unspents /\ lost_value' = lost_value)]_vars

----------------------------------------------------------------------------
(* C13 *)

\* a step that is a second on_block call for the block just applied
Redelivered ==
    /\ chain # <<>>
    /\ Len(chain') = Len(chain) + 1
    /\ chain'[Len(chain')].height = chain[Len(chain)].height
    /\ chain'[Len(chain')].block = chain[Len(chain)].block

SecondCallRepeatsIndex ==
    Redelivered =>
        LET first == chain[Len(chain)]
            second == chain'[Len(chain')]
        IN  /\ unspents' = unspents
            /\ second.out_v = first.out_v
            /\ (SpentKeys(first.block) \cap CreatedKeys(first.block) = {}) =>
                   second.in_v = Zero64

----------------------------------------------------------------------------
(* C14 *)

\* the largest element of a set of positive numbers, 0 for the empty set
MaxOf(S) == IF S = {} THEN 0 ELSE CHOOSE m \in S : \A n \in S : n <= m

\* the value found by input a of transaction j of a block applied to the
\* index u: that of the entry the key has when the input is looked up, which
\* an earlier transaction of the block may have created or removed; nothing
\* for a coinbase input and for a key that is absent
FoundValue(block, j, a, u) ==
    LET in == block[j].inputs[a]
        created == MaxOf({i \in 1..(j - 1) : in.key \in OutputKeys(block[i])})
        spent == MaxOf({i \in 1..(j - 1) : in.key \in SpendKeys(block[i])})
        again == \E b \in 1..(a - 1) :
                    ~block[j].inputs[b].coinbase /\ block[j].inputs[b].key = in.key
    IN  IF in.coinbase \/ again THEN Zero64
        ELSE IF created > 0 /\ created >= spent
        THEN block[created].outputs[in.key[2] + 1].value
        ELSE IF spent > 0 THEN Zero64
        ELSE IF in.key \in DOMAIN u THEN u[in.key].value
        ELSE Zero64

\* the sum of FoundValue over the inputs of a block from input a of
\* transaction j on
RECURSIVE FoundSum(_, _, _, _)
FoundSum(block, j, a, u) ==
    IF j > Len(block) THEN Zero64
    ELSE IF a > Len(block[j].inputs) THEN FoundSum(block, j + 1, 1, u)
    ELSE Add64(FoundValue(block, j, a, u), FoundSum(block, j, a + 1, u))

\* whether some input of the block is a miss on the index u
HasMiss(block, u) ==
    \E j \in 1..Len(block) : \E a \in 1..Len(block[j].inputs) :
        /\ FoundValue(block, j, a, u) = Zero64
        /\ (block[j].inputs[a].coinbase \/ block[j].inputs[a].key \notin DOMAIN u)

\* the effect of the spends of one on_block call on the entries the block
\* does not create itself
SpendStepEffect ==
    Len(chain') = Len(chain) + 1 =>
        LET e == chain'[Len(chain')]
            created == CreatedKeys(e.block)
            spent == SpentKeys(e.block)
        IN  /\ \A key \in (DOMAIN unspents) \ created :
                   /\ key \in spent => key \notin DOMAIN unspents'
                   /\ key \notin spent =>
                        (key \in DOMAIN unspents' /\ unspents'[key] = unspents[key])
            /\ DOMAIN unspents' \subseteq (DOMAIN unspents) \cup created
            /\ e.in_v = FoundSum(e.block, 1, 1, unspents)
            /\ HasMiss(e.block, unspents) => panic_at' \in {"none", "lost_value"}
            /\ panic_at' = "none" => phase' = "started"

\* C14: in the spend step an input whose key is in the index removes exactly
\* that entry and adds its value to the block's spent_value; an input whose
\* key is absent, a coinbase input included, leaves the index unchanged,
\* adds nothing and is not an error.
C14_SpendRemovesFoundEntryOnly == [][SpendStepEffect]_vars

\* a transaction with one input that is found and one that is a miss was
\* applied after the block that created the found output
C14_Witness ==
    /\ Len(chain) = 2
    /\ chain[1].block = <<TxCoinbaseA>>
    /\ chain[2].block = <<TxSplit>>
    /\ chain[2].in_v = V50
    /\ chain[2].returned
    /\ <<1, 0>> \notin DOMAIN unspents

----------------------------------------------------------------------------
(* C15 *)

\* the transactions create pairwise distinct output keys and spend nothing
CreatesOnly(txs) ==
    /\ \A i, j \in 1..Len(txs) : txs[i].txid = txs[j].txid => i = j
    /\ \A i \in 1..Len(txs) : \A a \in 1..Len(txs[i].inputs) : txs[i].inputs[a].coinbase

\* the number of outputs of the first n transactions
RECURSIVE OutputCount(_, _)
OutputCount(txs, n) == IF n = 0 THEN 0 ELSE OutputCount(txs, n - 1) + Len(txs[n].outputs)

\* C15: after on_block calls for blocks that create pairwise distinct output
\* keys and contain no spends, the index has as many entries as the blocks
\* have outputs, and the entries' values sum to the blocks' created values.
C15_CreatesAddUp ==
    CreatesOnly(ProcessedTxs) =>
        /\ Cardinality(DOMAIN unspents) = OutputCount(ProcessedTxs, Len(ProcessedTxs))
        /\ ValueOfKeys(DOMAIN unspents) = CreatedValue(ProcessedTxs, Len(ProcessedTxs))

\* two blocks of one coinbase transaction each, with different transaction
\* ids, were applied
C15_Witness ==
    /\ Len(chain) = 2
    /\ CreatesOnly(ProcessedTxs)
    /\ Cardinality(DOMAIN unspents) = 2
    /\ ValueOfKeys(DOMAIN unspents) # Zero64

----------------------------------------------------------------------------
(* C16 *)

\* the fold of the index into balances under one iteration order
Aggregate(keyOrder) ==
    collect_balances(unspents, keyOrder, 1, overflow_checks,
                     [balances |-> EmptyMap, panic |-> FALSE])

\* C16: folding the index into address balances twice, under any two
\* iteration orders of its entries, gives the same address -> balance
\* mapping.
C16_AggregationIgnoresOrder ==
    \A first, second \in Orders(DOMAIN unspents) : Aggregate(first) = Aggregate(second)

\* on_complete has folded an index in which one address owns two entries of
\* different values
C16_Witness ==
    /\ phase = "done"
    /\ \E k1, k2 \in DOMAIN unspents :
         /\ unspents[k1].address = unspents[k2].address
         /\ unspents[k1].value # unspents[k2].value
    /\ Cardinality(Orders(DOMAIN unspents)) >= 2

----------------------------------------------------------------------------
(* C17 *)

\* the decimal texts "5000000000", "4999990000" and "5000010000"
Text5000000000 == <<"5", "0", "0", "0", "0", "0", "0", "0", "0", "0">>
Text4999990000 == <<"4", "9", "9", "9", "9", "9", "0", "0", "0", "0">>
Text5000010000 == <<"5", "0", "0", "0", "0", "1", "0", "0", "0", "0">>

\* the run on_start(0); on_block of a coinbase paying 5,000,000,000 to A;
\* on_block of a transaction spending it and paying 4,999,990,000 to B;
\* on_complete(1) returned, with no failure of the file system
EndToEndRun ==
    /\ phase = "done"
    /\ start_height = 0 /\ end_height = 1
    /\ Len(chain) = 2
    /\ chain[1].block = <<TxCoinbaseA>> /\ chain[2].block = <<TxSpendToB>>
    /\ ~chain[1].csv_err /\ ~chain[2].csv_err

\* block 0 left no audit row, block 1 the one row, and lost_value is their sum
EndToEndAccounting ==
    /\ ~IsPos64(chain[1].lost)
    /\ output_csv = << <<(<<"1">>), Text5000000000, Text5000000000, Text4999990000,
                        Text5000010000>> >>
    /\ U64ToString(lost_value) = Text5000010000

\* the lines have the row for B and no row for A
HasRowBOnly(lines) ==
    /\ \E i \in 1..Len(lines) : lines[i] = <<"B", Text4999990000>>
    /\ \A i \in 1..Len(lines) : lines[i][1] # "A"

\* C17: in the run on_start(0), on_block(0: coinbase of 5,000,000,000 to A),
\* on_block(1: that output spent, 4,999,990,000 to B), on_complete(1), block
\* 0 produces no audit row, block 1 exactly the row
\* 1,5000000000,5000000000,4999990000,5000010000, lost_value ends at
\* 5,000,010,000, and the finalized file has the row B;4999990000 and no row
\* for A.
C17_EndToEndRun ==
    EndToEndRun =>
        /\ EndToEndAccounting
        /\ FinalName(0, 1) \in DOMAIN fs
        /\ HasRowBOnly(fs[FinalName(0, 1)])

\* the same run, with the snapshot taken as what on_complete wrote through
\* the writer instead of what the finalized file holds
EndToEndWritten ==
    (EndToEndRun /\ writer.open) => (EndToEndAccounting /\ HasRowBOnly(Snapshot))

----------------------------------------------------------------------------
(* C18 *)

\* the block applied by the last on_block call that went through its loop
LastApplied == chain[Len(chain)]

\* input a of transaction j spends an output of an earlier transaction of
\* the same block
SpendsEarlierOutput(block, j, a) ==
    /\ ~block[j].inputs[a].coinbase
    /\ \E i \in 1..(j - 1) : block[j].inputs[a].key \in OutputKeys(block[i])

\* every input of the block that is not a coinbase input spends an output
\* of an earlier transaction of the block
SpendsOnlyOwnOutputs(block) ==
    \A j \in 1..Len(block) : \A a \in 1..Len(block[j].inputs) :
        block[j].inputs[a].coinbase \/ SpendsEarlierOutput(block, j, a)

\* output number o of transaction j is neither spent nor created again by a
\* later transaction of the block
LeftAlone(block, j, o) ==
    \A i \in (j + 1)..Len(block) :
        <<block[j].txid, o - 1>> \notin SpendKeys(block[i]) \cup OutputKeys(block[i])

\* C18: on_block takes the transactions in the block's order and applies the
\* spends of each before its creates: an output created by a transaction and
\* spent by a later transaction of the same block is absent from the index
\* after the call and counted once in created_value and once in
\* spent_value, and an output no later transaction touches is in the index,
\* also when its own transaction names it as an input.
C18_TransactionsInOrderSpendsFirst ==
    chain # <<>> =>
        LET block == LastApplied.block
        IN  /\ \A j \in 1..Len(block) : \A a \in 1..Len(block[j].inputs) :
                   (/\ SpendsEarlierOutput(block, j, a)
                    /\ \A i \in j..Len(block) :
                         block[j].inputs[a].key \notin OutputKeys(block[i]))
                       => block[j].inputs[a].key \notin DOMAIN unspents
            /\ \A j \in 1..Len(block) : \A o \in 1..Len(block[j].outputs) :
                   LeftAlone(block, j, o) =>
                       /\ <<block[j].txid, o - 1>> \in DOMAIN unspents
                       /\ unspents[<<block[j].txid, o - 1>>] =
                              [address |-> block[j].outputs[o].address,
                               value |-> block[j].outputs[o].value,
                               block_height |-> LastApplied.height]
            /\ LastApplied.out_v = CreatedValue(block, Len(block))
            /\ SpendsOnlyOwnOutputs(block) =>
                   LastApplied.in_v = FoundSum(block, 1, 1, EmptyMap)

\* a block of a coinbase transaction and a transaction spending its output
\* was applied: the output is gone and its value is in both sums
C18_Witness ==
    /\ chain # <<>>
    /\ LastApplied.block = <<TxCoinbaseA, TxSpendToB>>
    /\ LastApplied.in_v = V50
    /\ LastApplied.out_v = Add64(V50, V4999)
    /\ <<1, 0>> \notin DOMAIN unspents
    /\ <<2, 0>> \in DOMAIN unspents

----------------------------------------------------------------------------
(* C19 *)

\* the height the driver passed to on_start: every on_block call that did
\* not panic in block_reward advanced the driver by one and left one entry
PassedToStart == next_height - Len(chain)

\* the height the driver passed to on_complete
PassedToComplete == IF chain = <<>> THEN next_height ELSE next_height - 1

\* start_height changes only in on_start, end_height only in on_complete,
\* and a step that is an on_block call changes neither
HeightsWrittenByTheirHandler ==
    /\ start_height' # start_height => (phase = "new" /\ phase' = "started")
    /\ end_height' # end_height =>
          (phase = "started" /\ phase' \in {"done", "err", "panic"} /\ chain' = chain)
    /\ next_height' = next_height + 1 =>
          (start_height' = start_height /\ end_height' = end_height)

\* the finalized file is named after the two heights the driver passed
FinalNameCarriesPassedHeights ==
    complete_io.rename = "ok" =>
        /\ start_height = PassedToStart
        /\ end_height = PassedToComplete
        /\ FinalFiles = {<<"balances-", U64ToString(FromNat(PassedToStart)), "-",
                           U64ToString(FromNat(PassedToComplete)), ".csv">>}

\* C19: start_height is written only by on_start and end_height only by
\* on_complete, no on_block call changes either, and the finalized file is
\* named balances-<start_height>-<end_height>.csv after the height passed to
\* on_start and the height passed to on_complete, whatever blocks were
\* applied in between.
C19_HeightsSetOnceAndNamed ==
    [](FinalNameCarriesPassedHeights) /\ [][HeightsWrittenByTheirHandler]_vars

\* a run started at 209999 that applied two blocks and was finalized
C19_Witness ==
    /\ complete_io.rename = "ok"
    /\ Len(chain) = 2
    /\ DOMAIN unspents # {}
    /\ <<"balances-", <<"2", "0", "9", "9", "9", "9">>, "-",
          <<"2", "1", "0", "0", "0", "0">>, ".csv">> \in DOMAIN fs

----------------------------------------------------------------------------
(* C20 *)

\* C20 as stated: the temporary file does not exist before on_start is
\* called.
C20_Original_NoFileBeforeOnStart ==
    phase = "new" => TmpName \notin DOMAIN fs

\* C20 amended: the temporary file is opened by the construction of the
\* engine: it exists, empty and open, before on_start is called and stays
\* open while blocks are processed; when it cannot be opened, construction
\* fails, and neither on_start nor any on_block runs on that engine.
C20_FileOpenedAtConstruction ==
    /\ phase = "new" =>
          (DOMAIN fs = {TmpName} /\ fs[TmpName] = <<>> /\ writer.open /\ chain = <<>>)
    /\ phase = "started" => (writer.open /\ TmpName \in DOMAIN fs)
    /\ chain # <<>> => (phase # "new_failed" /\ DOMAIN fs # {})
    /\ phase = "new_failed" =>
          /\ fs = EmptyMap /\ ~writer.open
          /\ unspents = EmptyMap /\ chain = <<>>
          /\ start_height = 0 /\ next_height = 0

\* the first block was applied with the temporary file open and still empty
C20_Witness ==
    /\ phase = "started"
    /\ Len(chain) = 1
    /\ DOMAIN unspents # {}
    /\ writer.open
    /\ fs[TmpName] = <<>>

====
